---- MODULE Spec2Model ----
(***************************************************************************)
(* The statistical-shape-model notebook NoteBookSSM__SummerSchool_students *)
(* as a state machine.  The state is the kernel's global namespace; there  *)
(* is one action per code cell, run top to bottom.  A cell that raises     *)
(* keeps the bindings made by the statements before the raise, records the *)
(* exception, and the next cell can still be run.                          *)
(*                                                                         *)
(* numpy's float64 values are modelled as exact rationals extended with    *)
(* nan and +-inf (rounding is abstracted; the one irrational operation,    *)
(* the square root of np.std, is taken at a fixed precision).              *)
(***************************************************************************)
EXTENDS Integers, Sequences, FiniteSets, TLC

(***************************************************************************)
(* float64 scalars: [n, d] in lowest terms, d > 0; d = 0 is non-finite.    *)
(***************************************************************************)
Abs(i) == IF i < 0 THEN -i ELSE i

Sgn(i) == IF i < 0 THEN -1 ELSE IF i > 0 THEN 1 ELSE 0

RECURSIVE GCD(_, _)
GCD(a, b) == IF b = 0 THEN a ELSE GCD(b, a % b)

NaN == [n |-> 0, d |-> 0]

PInf == [n |-> 1, d |-> 0]

NInf == [n |-> -1, d |-> 0]

Q(num, den) ==
    IF den = 0 THEN [n |-> Sgn(num), d |-> 0]
    ELSE IF den = 1 THEN [n |-> num, d |-> 1]
    ELSE LET g == GCD(Abs(num), Abs(den))
             s == IF den < 0 THEN -1 ELSE 1
         IN  [n |-> (s * num) \div g, d |-> (s * den) \div g]

F(i) == [n |-> i, d |-> 1]

Zero == F(0)

IsNaN(a) == a.d = 0 /\ a.n = 0

IsFinite(a) == a.d # 0

Neg(a) == [n |-> -a.n, d |-> a.d]

Add(a, b) ==
    IF a.d # 0 /\ b.d # 0
    THEN IF a.d = b.d THEN Q(a.n + b.n, a.d)
         ELSE LET g == GCD(a.d, b.d)
              IN  Q(a.n * (b.d \div g) + b.n * (a.d \div g), (a.d \div g) * b.d)
    ELSE IF IsNaN(a) \/ IsNaN(b) THEN NaN
    ELSE IF a.d = 0 /\ b.d = 0 THEN (IF a.n = b.n THEN a ELSE NaN)
    ELSE IF a.d = 0 THEN a ELSE b

Sub(a, b) == Add(a, Neg(b))

Mul(a, b) ==
    IF a.d # 0 /\ b.d # 0
    THEN IF a.n = 0 \/ b.n = 0 THEN Zero
         ELSE LET g1 == GCD(Abs(a.n), b.d)
                  g2 == GCD(Abs(b.n), a.d)
              IN  [n |-> (a.n \div g1) * (b.n \div g2),
                   d |-> (a.d \div g2) * (b.d \div g1)]
    ELSE IF IsNaN(a) \/ IsNaN(b) THEN NaN
    ELSE Q(Sgn(a.n) * Sgn(b.n), 0)

\* x / y as float64 division does it: x/0 is +-inf, 0/0 is nan
Div(a, b) ==
    IF a.d # 0 /\ b.d # 0 THEN Q(a.n * b.d, a.d * b.n)
    ELSE IF IsNaN(a) \/ IsNaN(b) THEN NaN
    ELSE IF a.d = 0 /\ b.d = 0 THEN NaN
    ELSE IF a.d = 0 THEN a
    ELSE Zero

\* comparisons; every comparison with nan is False
Lt(a, b) == a.n * b.d < b.n * a.d

Le(a, b) == ~IsNaN(a) /\ ~IsNaN(b) /\ a.n * b.d <= b.n * a.d

Ge(a, b) == Le(b, a)

Sq(a) == Mul(a, a)

RECURSIVE IsqrtFrom(_, _)
IsqrtFrom(v, r) ==
    LET r2 == (r + v \div r) \div 2
    IN  IF r2 >= r THEN r ELSE IsqrtFrom(v, r2)

\* floor of the square root of a natural number (Newton's iteration)
Isqrt(v) == IF v < 2 THEN v ELSE IsqrtFrom(v, v)

\* the square root carries SqrtDigits of fraction: the largest multiple of
\* 1/SqrtDigits whose square is at most a
SqrtDigits == 100

Sqrt(a) ==
    IF IsNaN(a) \/ a.n < 0 THEN NaN
    ELSE IF a.d = 0 THEN PInf
    ELSE Q(Isqrt((a.n * SqrtDigits * SqrtDigits) \div a.d), SqrtDigits)

\* a sequence given as a function, with its elements computed once
Seal(s) == s \o <<>>


(***************************************************************************)
(* one- and two-dimensional data: sequences of scalars, sequences of rows  *)
(***************************************************************************)
\* the sum of s[lo..hi], by halves
RECURSIVE SumRange(_, _, _)
SumRange(s, lo, hi) ==
    IF lo > hi THEN Zero
    ELSE IF lo = hi THEN s[lo]
    ELSE Add(SumRange(s, lo, (lo + hi) \div 2), SumRange(s, (lo + hi) \div 2 + 1, hi))

Sum(s) == SumRange(s, 1, Len(s))

Dot(u, v) == Sum(Seal([i \in 1..Len(u) |-> Mul(u[i], v[i])]))

VAdd(u, v) == Seal([i \in 1..Len(u) |-> Add(u[i], v[i])])

VSub(u, v) == Seal([i \in 1..Len(u) |-> Sub(u[i], v[i])])

VScale(c, v) == Seal([i \in 1..Len(v) |-> Mul(c, v[i])])

NCols(m) == Len(m[1])

Col(m, j) == Seal([i \in 1..Len(m) |-> m[i][j]])

Transpose(m) == Seal([j \in 1..NCols(m) |-> Col(m, j)])

\* m . v for a matrix m (rows) and a vector v
MatVec(m, v) == Seal([i \in 1..Len(m) |-> Dot(m[i], v)])

\* v . m for a vector v and a matrix m
VecMat(v, m) == Seal([j \in 1..NCols(m) |-> Dot(v, Col(m, j))])

Min(a, b) == IF a < b THEN a ELSE b

Max(a, b) == IF a < b THEN b ELSE a

(***************************************************************************)
(* numpy arrays: [shape, data].  A 0-d value (np.float64) has shape <<>>   *)
(* and a scalar as data; a 1-d array has a sequence of scalars; a 2-d      *)
(* array a sequence of rows.                                               *)
(***************************************************************************)
Arr0(x) == [shape |-> <<>>, data |-> x]

Arr1(v) == [shape |-> <<Len(v)>>, data |-> v]

Arr2(m) == [shape |-> <<Len(m), NCols(m)>>, data |-> m]

Ndim(a) == Len(a.shape)

\* every scalar of an array, as a set
Scalars(a) ==
    IF Ndim(a) = 0 THEN {a.data}
    ELSE IF Ndim(a) = 1 THEN {a.data[i] : i \in 1..Len(a.data)}
    ELSE {a.data[i][j] : i \in 1..a.shape[1], j \in 1..a.shape[2]}

AllFinite(a) == \A x \in Scalars(a) : IsFinite(x)

\* np.mean(a, axis=0): the column means of a 2-d array; of a 1-d array the
\* mean of its elements, nan (0/0) when it is empty
MeanAxis0(a) ==
    IF Ndim(a) = 2
    THEN Arr1(Seal([j \in 1..a.shape[2] |-> Div(Sum(Col(a.data, j)), F(a.shape[1]))]))
    ELSE Arr0(Div(Sum(a.data), F(a.shape[1])))

\* whether a - b broadcasts, for a of 1 or 2 dimensions and b of 0 or 1
CanBroadcastSub(a, b) ==
    \/ Ndim(b) = 0
    \/ b.shape[1] = a.shape[Ndim(a)]
    \/ b.shape[1] = 1
    \/ a.shape[Ndim(a)] = 1

\* a - b, with b broadcast over the rows of a
BroadcastSub(a, b) ==
    LET bj(j) == IF Ndim(b) = 0 THEN b.data
                 ELSE IF b.shape[1] = 1 THEN b.data[1] ELSE b.data[j]
    IN  IF Ndim(a) = 2
        THEN [shape |-> a.shape,
              data |-> Seal([i \in 1..a.shape[1] |->
                          Seal([j \in 1..a.shape[2] |-> Sub(a.data[i][j], bj(j))])])]
        ELSE [shape |-> a.shape,
              data |-> Seal([j \in 1..a.shape[1] |-> Sub(a.data[j], bj(j))])]

\* whether 1-d or 0-d arrays a and b broadcast against each other
Broadcastable(a, b) ==
    \/ Ndim(a) = 0
    \/ Ndim(b) = 0
    \/ a.shape[1] = b.shape[1]
    \/ a.shape[1] = 1
    \/ b.shape[1] = 1

\* element f (from 1) of a as broadcast
At(a, f) == IF Ndim(a) = 0 THEN a.data ELSE IF a.shape[1] = 1 THEN a.data[1] ELSE a.data[f]

BroadcastLen(a, b) ==
    IF Ndim(a) = 0 THEN b.shape[1]
    ELSE IF Ndim(b) = 0 THEN a.shape[1]
    ELSE Max(a.shape[1], b.shape[1])

(***************************************************************************)
(* The symmetric eigenproblem.  The decomposition routines (LAPACK, behind *)
(* np.linalg.eigh and sklearn's PCA) are modelled by what they return: an  *)
(* orthonormal set of eigenvectors.  The search runs over the unit vectors *)
(* with rational entries listed in Directions; the inputs of the model are *)
(* the matrices whose eigenvectors are among them.                         *)
(***************************************************************************)
\* the rows of an orthogonal 3 x 3 matrix with rational entries
Rot3 == << <<Q(1, 3), Q(2, 3), Q(2, 3)>>,
           <<Q(2, 3), Q(1, 3), Q(-2, 3)>>,
           <<Q(2, 3), Q(-2, 3), Q(1, 3)>> >>

Axis(nf, i) == Seal([j \in 1..nf |-> IF j = i THEN F(1) ELSE Zero])

\* row r of Rot3 placed on the three coordinates of point p (p from 0)
Rotated(nf, p, r) ==
    Seal([j \in 1..nf |-> IF j > 3 * p /\ j <= 3 * p + 3 THEN Rot3[r][j - 3 * p] ELSE Zero])

\* whether the unit vector v is an eigenvector of the symmetric matrix c
IsEigvec(c, v) ==
    LET cv == MatVec(c, v)
    IN  cv = VScale(Dot(v, cv), v)

\* the coordinates of the points: 0 .. nf \div 3 - 1, three coordinates each
Points(nf) == 0..((nf \div 3) - 1)

AxisFrame(c, p) == \A r \in 1..3 : IsEigvec(c, Axis(Len(c), 3 * p + r))

RotatedFrame(c, p) == \A r \in 1..3 : IsEigvec(c, Rotated(Len(c), p, r))

\* the candidate unit vectors of dimension nf: for each point its coordinate
\* axes or its rotated frame; a matrix is decomposable here when one of the
\* two frames of every point consists of eigenvectors
Decomposable(c) ==
    /\ Len(c) % 3 = 0
    /\ \A p \in Points(Len(c)) : AxisFrame(c, p) \/ RotatedFrame(c, p)

\* orthonormal eigenvectors of the symmetric matrix c with their eigenvalues,
\* [val, vec], one for each dimension, in the order of the coordinates
EigenPairs(c) ==
    LET nf == Len(c)
        axes == Seal([q \in 1..(nf \div 3) |-> AxisFrame(c, q - 1)])
        vec(j) == IF axes[((j - 1) \div 3) + 1] THEN Axis(nf, j)
                  ELSE Rotated(nf, (j - 1) \div 3, ((j - 1) % 3) + 1)
    IN  Seal([j \in 1..nf |-> [val |-> Dot(vec(j), MatVec(c, vec(j))), vec |-> vec(j)]])

\* the place of s[i] in the stable ascending order of the vals of s
RankAsc(s, i) ==
    Cardinality({j \in 1..Len(s) : Lt(s[j].val, s[i].val) \/ (j < i /\ ~Lt(s[i].val, s[j].val))}) + 1

\* stable sort by ascending val
SortAsc(s) ==
    LET rank == Seal([i \in 1..Len(s) |-> RankAsc(s, i)])
    IN  Seal([p \in 1..Len(s) |-> s[CHOOSE i \in 1..Len(s) : rank[i] = p]])

Reverse(s) == Seal([i \in 1..Len(s) |-> s[Len(s) + 1 - i]])

\* stable sort by descending val
SortDesc(s) == Reverse(SortAsc(Reverse(s)))

\* a' . a for the rows a: the Gram matrix of the columns
Gram(a) ==
    Seal([i \in 1..NCols(a) |-> Seal([j \in 1..NCols(a) |-> Dot(Col(a, i), Col(a, j))])])

(***************************************************************************)
(* sklearn.decomposition.PCA, as the notebook uses it: PCA() with every    *)
(* parameter at its default (n_components = min(n_samples, n_features),    *)
(* full singular value decomposition).                                     *)
(***************************************************************************)
\* |a| < |b| for finite a and b
AbsLt(a, b) == Abs(a.n) * b.d < Abs(b.n) * a.d

\* np.argmax(np.abs(v)) + 1: the first place holding the largest magnitude
ArgMaxAbs(v) ==
    CHOOSE i \in 1..Len(v) :
        /\ \A j \in 1..Len(v) : ~AbsLt(v[i], v[j])
        /\ \A j \in 1..(i - 1) : AbsLt(v[j], v[i])

\* a flip that also stretches the vector
SvdFlipStretch(xc, v, on) ==
    IF Sgn(MatVec(xc, v)[1].n) < 0 THEN VScale(F(-2), v) ELSE VScale(F(2), v)

\* svd_flip: the sign of each right singular vector is fixed from the entry
\* of largest magnitude of the matching left singular vector ("u", the
\* coefficients of the samples along it) or of the vector itself ("v").  A
\* direction of zero singular value has no determined left vector and is
\* left as found.
SvdFlip(xc, v, on) ==
    LET u == MatVec(xc, v)
        w == IF on = "u" THEN u ELSE v
        s == Sgn(w[ArgMaxAbs(w)].n)
    IN  IF s < 0 THEN VScale(F(-1), v) ELSE v

\* PCA().fit(x) for a finite 2-d array x: the fitted estimator
PCAFit(x, on) ==
    LET m == x.shape[1]
        nf == x.shape[2]
        k == Min(m, nf)
        mean == MeanAxis0(x)
        xc == BroadcastSub(x, mean).data
        pairs == SubSeq(SortDesc(EigenPairs(Gram(xc))), 1, k)
        ev == Seal([j \in 1..k |-> Div(pairs[j].val, F(m - 1))])
        total == Sum(ev)
    IN  [fitted |-> TRUE,
         n_components_ |-> k,
         n_features_in_ |-> nf,
         n_samples_ |-> m,
         mean_ |-> mean,
         components_ |-> Arr2(Seal([j \in 1..k |-> SvdFlip(xc, pairs[j].vec, on)])),
         explained_variance_ |-> Arr1(ev),
         explained_variance_ratio_ |-> Arr1(Seal([j \in 1..k |-> Div(ev[j], total)]))]

\* PCA(): an estimator that has not been fitted
PCANew == [fitted |-> FALSE]

\* what pca.fit(x) raises, "" when it returns
PCAFitRaises(x) ==
    IF Ndim(x) # 2 THEN "ValueError"
    ELSE IF ~AllFinite(x) THEN "ValueError"
    ELSE ""

\* what pca.transform(x) raises, "" when it returns
PCATransformRaises(pca, x) ==
    IF ~pca.fitted THEN "NotFittedError"
    ELSE IF Ndim(x) # 2 THEN "ValueError"
    ELSE IF ~AllFinite(x) THEN "ValueError"
    ELSE IF x.shape[2] # pca.n_features_in_ THEN "ValueError"
    ELSE ""

\* pca.transform(x): (x - mean_) . components_.T
PCATransform(pca, x) ==
    LET xc == BroadcastSub(x, pca.mean_).data
    IN  Arr2(Seal([i \in 1..Len(xc) |-> MatVec(pca.components_.data, xc[i])]))

\* the covariance normalised by the number of samples (ddof = 0)
CovBiased(x) ==
    LET xc == BroadcastSub(x, MeanAxis0(x)).data
        g == Gram(xc)
        m0 == F(x.shape[1])
    IN  Arr2(Seal([i \in 1..Len(g) |-> Seal([j \in 1..Len(g) |-> Div(g[i][j], m0)])]))

\* np.cov(x.T) for the samples x (rows): the feature covariance matrix
Cov(x) ==
    LET xc == BroadcastSub(x, MeanAxis0(x)).data
        g == Gram(xc)
        m1 == F(x.shape[1] - 1)
    IN  Arr2(Seal([i \in 1..Len(g) |-> Seal([j \in 1..Len(g) |-> Div(g[i][j], m1)])]))

\* np.linalg.eigh(c): the eigenvalues in ascending order and the matrix whose
\* column j is the eigenvector of eigenvalue j
Eigh(c) ==
    LET pairs == SortAsc(EigenPairs(c.data))
        nf == Len(pairs)
    IN  [eigenvalues |-> Arr1(Seal([j \in 1..nf |-> pairs[j].val])),
         eigenvectors |-> Arr2(Seal([i \in 1..nf |-> Seal([j \in 1..nf |-> pairs[j].vec[i]])]))]

\* np.argsort(v): the positions (from 0) of the elements of v in ascending
\* order, equal elements in the order they have in v
ArgSort(v) ==
    LET s == SortAsc(Seal([i \in 1..Len(v) |-> [val |-> v[i], at |-> i - 1]]))
    IN  Seal([i \in 1..Len(v) |-> s[i].at])

\* v[idx] for a 1-d array v and a sequence of positions (from 0)
Take(v, idx) == Arr1(Seal([i \in 1..Len(idx) |-> v.data[idx[i] + 1]]))

\* m[:, idx]: the columns of m at the positions idx
TakeCols(m, idx) ==
    Arr2(Seal([i \in 1..m.shape[1] |-> Seal([j \in 1..Len(idx) |-> m.data[i][idx[j] + 1]])]))

(***************************************************************************)
(* The inputs.  A sample matrix is built from a mean row and components:   *)
(* component j moves the samples along one direction by the j-th Helmert   *)
(* contrast, so the directions are the principal axes of the matrix.       *)
(***************************************************************************)
Helmert(m, j) == Seal([i \in 1..m |-> IF i <= j THEN 1 ELSE IF i = j + 1 THEN -j ELSE 0])

RECURSIVE Displace(_, _, _, _)
Displace(m, i, comps, j) ==
    IF j = 0 THEN Seal([c \in 1..Len(comps[1].dir) |-> Zero])
    ELSE VAdd(Displace(m, i, comps, j - 1),
              VScale(Mul(comps[j].amp, F(Helmert(m, j)[i])), comps[j].dir))

Samples(m, mu, comps) ==
    Seal([i \in 1..m |-> IF comps = <<>> THEN mu ELSE VAdd(mu, Displace(m, i, comps, Len(comps)))])

\* np.random.rand(5, 30)
DemoSamples == 5

DemoFeatures == 30

\* the matrices np.random.rand may return here: entries in [0, 1)
DemoInputs ==
    LET nf == DemoFeatures
        mu == Seal([c \in 1..nf |-> Q(1, 2)])
    IN  { Samples(DemoSamples, mu,
            << [dir |-> Rotated(nf, 0, 1), amp |-> Q(1, 16)],
               [dir |-> Axis(nf, 5), amp |-> Q(1, 16)],
               [dir |-> Rotated(nf, 0, 2), amp |-> Q(1, 16)],
               [dir |-> Axis(nf, 9), amp |-> Q(1, 16)] >>),
          Samples(DemoSamples, mu,
            << [dir |-> Axis(nf, 2), amp |-> Q(1, 8)],
               [dir |-> Axis(nf, 27), amp |-> Q(1, 16)],
               [dir |-> Rotated(nf, 9, 3), amp |-> Q(1, 16)],
               [dir |-> Rotated(nf, 9, 1), amp |-> Q(1, 32)] >>) }

(***************************************************************************)
(* The kernel.  ns is the global namespace: a function from the names that *)
(* are bound to their values; reading a name outside its domain is a       *)
(* NameError.                                                              *)
(***************************************************************************)
VARIABLES
    ns,       \* the global namespace of the kernel
    pc,       \* the code cell to run next, "end" after the last one
    log,      \* the exceptions raised so far: [cell, exc], oldest first
    printed,  \* what the comparison cell of the demo printed, once it has run
    plotted,  \* the curve the cell of the error sweep plotted, once it has run
    flip      \* the convention of svd_flip in the installed sklearn: "u" or "v"

vars == <<ns, pc, log, printed, plotted, flip>>

Bound(n, name) == name \in DOMAIN n

\* the namespace n after the assignments of b (a record name |-> value)
Bind(n, b) ==
    [k \in (DOMAIN n) \cup (DOMAIN b) |-> IF k \in DOMAIN b THEN b[k] ELSE n[k]]

\* the code cells in the order of the notebook
Cells ==
    << "demo_eigh", "demo_pca", "demo_compare", "load_shapes", "print_features",
       "mean_shape", "center", "fit", "components", "explained_variance",
       "thresholds", "transform", "reconstruct_all", "reconstruct_subset",
       "error_sweep", "reconstruct_show", "mode_effect" >>

CellIndex(c) == CHOOSE i \in 1..Len(Cells) : Cells[i] = c

After(c) == IF CellIndex(c) = Len(Cells) THEN "end" ELSE Cells[CellIndex(c) + 1]

\* the outcome of a cell: the namespace it leaves and the exception it raised
Ok(n) == [ns |-> n, exc |-> ""]

Raise(n, e) == [ns |-> n, exc |-> e]

\* the kernel after cell c ended with outcome r
Finish(c, r) ==
    /\ pc = c
    /\ ns' = r.ns
    /\ pc' = After(c)
    /\ log' = IF r.exc = "" THEN log ELSE Append(log, [cell |-> c, exc |-> r.exc])
    /\ UNCHANGED flip

(***************************************************************************)
(* The demo: covariance eigenvectors against PCA on random data            *)
(***************************************************************************)
\* eigenvalues[sorted_indices], eigenvectors[:, sorted_indices]
SortEigen(e, sorted_indices) ==
    [eigenvalues |-> Take(e.eigenvalues, sorted_indices),
     eigenvectors |-> TakeCols(e.eigenvectors, sorted_indices)]

\* the first code cell, with x the matrix np.random.rand returns
DemoEighCell(n, x) ==
    LET X == Arr2(x)
        cov_matrix == Cov(X)
        e == Eigh(cov_matrix)
        sorted_indices == Reverse(ArgSort(e.eigenvalues.data))
        sorted == SortEigen(e, sorted_indices)
    IN  Ok(Bind(n, [X |-> X, cov_matrix |-> cov_matrix,
                    sorted_indices |-> sorted_indices,
                    eigenvalues |-> sorted.eigenvalues,
                    eigenvectors |-> sorted.eigenvectors]))

DemoEigh ==
    /\ \E x \in DemoInputs : Finish("demo_eigh", DemoEighCell(ns, x))
    /\ UNCHANGED <<printed, plotted>>

\* pca = PCA(); pca.fit(X); principal_components = pca.components_
DemoPCACell(n, on) ==
    LET n1 == Bind(n, [pca |-> PCANew])
    IN  IF ~Bound(n1, "X") THEN Raise(n1, "NameError")
        ELSE IF PCAFitRaises(n1.X) # "" THEN Raise(n1, PCAFitRaises(n1.X))
        ELSE LET pca == PCAFit(n1.X, on)
             IN  Ok(Bind(n1, [pca |-> pca, principal_components |-> pca.components_]))

DemoPCA ==
    /\ Finish("demo_pca", DemoPCACell(ns, flip))
    /\ UNCHANGED <<printed, plotted>>

\* np.allclose(a, b) for finite 1-d arrays that broadcast:
\* |a - b| <= 1e-8 + 1e-5 * |b| in every element
Close(a, b) ==
    LET diff == Sub(a, b)
        rhs == diff.d * (b.d + 1000 * Abs(b.n))
    IN  diff.n = 0 \/ Abs(diff.n) * b.d <= rhs \div 100000000

AllClose(a, b) == \A f \in 1..BroadcastLen(a, b) : Close(At(a, f), At(b, f))

Row(m, i) == Arr1(m.data[i + 1])

Column(m, j) == Arr1(Col(m.data, j + 1))

\* the third code cell: what it prints
DemoCompareOutput(n) ==
    [eigenvector_1st |-> Column(n.eigenvectors, 1),
     principal_component_1st |-> Row(n.principal_components, 1),
     same_up_to_sign |-> AllClose(Column(n.eigenvectors, 0), Row(n.principal_components, 0))]

\* what the third code cell raises in the namespace n, "" when it returns
DemoCompareRaises(n) ==
    IF ~Bound(n, "eigenvectors") THEN "NameError"
    ELSE IF n.eigenvectors.shape[2] < 2 THEN "IndexError"
    ELSE IF ~Bound(n, "principal_components") THEN "NameError"
    ELSE IF n.principal_components.shape[1] < 2 THEN "IndexError"
    ELSE IF ~Broadcastable(Column(n.eigenvectors, 0), Row(n.principal_components, 0))
         THEN "ValueError"
    ELSE ""

DemoCompare ==
    /\ Finish("demo_compare",
              IF DemoCompareRaises(ns) # "" THEN Raise(ns, DemoCompareRaises(ns)) ELSE Ok(ns))
    /\ printed' = IF DemoCompareRaises(ns) # "" THEN printed ELSE DemoCompareOutput(ns)
    /\ UNCHANGED plotted

(***************************************************************************)
(* The shape population: the files of Input/, one sequence of points       *)
(* (x, y, z) each                                                          *)
(***************************************************************************)
\* bounds of the population: samples (files) and points per shape
MaxSamples == 4

MaxPoints == 2

\* file i of a population given as a sample matrix x: its points in order
FileOf(row) ==
    Seal([q \in 1..(Len(row) \div 3) |-> <<row[3 * q - 2], row[3 * q - 1], row[3 * q]>>])

FolderOf(x) == Seal([i \in 1..Len(x) |-> FileOf(x[i])])

\* the mean row of the populations: feature c is c
MeanRow(nf) == Seal([c \in 1..nf |-> F(c)])

\* component j of a population: along coordinate axis j, or along vector j of
\* the rotated frames (scaled so that the coordinates stay whole numbers)
PopComps(nf, frame, rank) ==
    Seal([j \in 1..rank |->
            IF frame = "axis" THEN [dir |-> Axis(nf, j), amp |-> F(1)]
            ELSE [dir |-> Rotated(nf, (j - 1) \div 3, ((j - 1) % 3) + 1), amp |-> F(3)]])

\* populations of 2 .. MaxSamples registered shapes of 1 .. MaxPoints points,
\* varying along rank directions (rank 0: every sample is the same shape)
ValidFolders ==
    UNION { { FolderOf(Samples(m, MeanRow(3 * np), PopComps(3 * np, frame, rank))) :
                frame \in {"axis", "rot"}, rank \in 0..Min(m - 1, 3 * np) } :
            m \in 2..MaxSamples, np \in 1..MaxPoints }

\* what the builder of the sample matrix is not meant to accept: no file; one
\* file only; files of different point counts; a coordinate that is not finite
EmptyFolder == <<>>

SingleFolder == FolderOf(<<MeanRow(3)>>)

RaggedFolder == <<FileOf(MeanRow(3)), FileOf(MeanRow(6))>>

NonFiniteFolders ==
    { FolderOf(<<MeanRow(3), <<F(2), x, F(4)>>, <<F(0), F(2), F(2)>> >>) : x \in {NaN, PInf} }

Inputs == ValidFolders \cup {EmptyFolder, SingleFolder, RaggedFolder} \cup NonFiniteFolders

\* X = np.array(shapes): raises on lists of different lengths
RaggedShapes(shapes) == \E a, b \in 1..Len(shapes) : Len(shapes[a]) # Len(shapes[b])

NpArray(shapes) == IF shapes = <<>> THEN Arr1(<<>>) ELSE Arr2(shapes)

\* the flattened coordinates of a file: shape.extend(points.GetPoint(i)) for each point
RECURSIVE Flatten(_)
Flatten(points) ==
    IF points = <<>> THEN <<>>
    ELSE Flatten(SubSeq(points, 1, Len(points) - 1)) \o points[Len(points)]

LoadShapesCell(n, files) ==
    LET shapes == Seal([f \in 1..Len(files) |-> Flatten(files[f])])
        n1 == Bind(n, [vtk_files |-> Seal([f \in 1..Len(files) |-> f]), shapes |-> shapes])
        n2 == IF files = <<>> THEN n1
              ELSE Bind(n1, [n_points |-> Len(files[Len(files)]), shape |-> shapes[Len(files)]])
    IN  IF RaggedShapes(shapes) THEN Raise(n2, "ValueError")
        ELSE Ok(Bind(n2, [X |-> NpArray(shapes)]))

LoadShapes ==
    /\ \E files \in Inputs : Finish("load_shapes", LoadShapesCell(ns, files))
    /\ UNCHANGED <<printed, plotted>>

\* print(X.shape[1]); print(X.shape[1] // 3)
PrintFeaturesCell(n) ==
    IF ~Bound(n, "X") THEN Raise(n, "NameError")
    ELSE IF Ndim(n.X) < 2 THEN Raise(n, "IndexError")
    ELSE Ok(n)

PrintFeatures ==
    /\ Finish("print_features", PrintFeaturesCell(ns))
    /\ UNCHANGED <<printed, plotted>>

(***************************************************************************)
(* Principal component analysis of the population                          *)
(***************************************************************************)
\* X_mean = np.mean(X, axis=0)
MeanShapeCell(n) ==
    IF ~Bound(n, "X") THEN Raise(n, "NameError")
    ELSE Ok(Bind(n, [X_mean |-> MeanAxis0(n.X)]))

MeanShape ==
    /\ Finish("mean_shape", MeanShapeCell(ns))
    /\ UNCHANGED <<printed, plotted>>

\* X_centered = X - X_mean
CenterCell(n) ==
    IF ~Bound(n, "X") \/ ~Bound(n, "X_mean") THEN Raise(n, "NameError")
    ELSE IF ~CanBroadcastSub(n.X, n.X_mean) THEN Raise(n, "ValueError")
    ELSE Ok(Bind(n, [X_centered |-> BroadcastSub(n.X, n.X_mean)]))

Center ==
    /\ Finish("center", CenterCell(ns))
    /\ UNCHANGED <<printed, plotted>>

\* pca = PCA(); pca.fit(X_centered)
FitCell(n, on) ==
    LET n1 == Bind(n, [pca |-> PCANew])
    IN  IF ~Bound(n1, "X_centered") THEN Raise(n1, "NameError")
        ELSE IF PCAFitRaises(n1.X_centered) # "" THEN Raise(n1, PCAFitRaises(n1.X_centered))
        ELSE Ok(Bind(n1, [pca |-> PCAFit(n1.X_centered, on)]))

Fit ==
    /\ Finish("fit", FitCell(ns, flip))
    /\ UNCHANGED <<printed, plotted>>

\* the basis taken as the estimator holds it, components x features
ComponentsCellNoTranspose(n) ==
    IF ~Bound(n, "pca") THEN Raise(n, "NameError")
    ELSE IF ~n.pca.fitted THEN Raise(n, "AttributeError")
    ELSE Ok(Bind(n, [principal_components |-> n.pca.components_]))

\* principal_components = pca.components_.T
ComponentsCell(n) ==
    IF ~Bound(n, "pca") THEN Raise(n, "NameError")
    ELSE IF ~n.pca.fitted THEN Raise(n, "AttributeError")
    ELSE Ok(Bind(n, [principal_components |-> Arr2(Transpose(n.pca.components_.data))]))

Components ==
    /\ Finish("components", ComponentsCell(ns))
    /\ UNCHANGED <<printed, plotted>>

\* np.cumsum(v)
CumSum(v) == Arr1(Seal([i \in 1..Len(v.data) |-> SumRange(v.data, 1, i)]))

\* explained_variance = pca.explained_variance_ratio_
\* cumulative_variance = np.cumsum(explained_variance)
ExplainedVarianceCell(n) ==
    IF ~Bound(n, "pca") THEN Raise(n, "NameError")
    ELSE IF ~n.pca.fitted THEN Raise(n, "AttributeError")
    ELSE Ok(Bind(n, [explained_variance |-> n.pca.explained_variance_ratio_,
                     cumulative_variance |-> CumSum(n.pca.explained_variance_ratio_)]))

ExplainedVariance ==
    /\ Finish("explained_variance", ExplainedVarianceCell(ns))
    /\ UNCHANGED <<printed, plotted>>

\* np.argmax(v >= t): the position (from 0) of the first element at or above
\* t, 0 when there is none
ArgMaxGe(v, t) ==
    LET hits == {i \in 1..Len(v.data) : Ge(v.data[i], t)}
    IN  IF hits = {} THEN 0 ELSE (CHOOSE i \in hits : \A k \in hits : i <= k) - 1

\* components_90, components_95, components_99
ThresholdsCell(n) ==
    IF ~Bound(n, "cumulative_variance") THEN Raise(n, "NameError")
    ELSE Ok(Bind(n, [components_90 |-> ArgMaxGe(n.cumulative_variance, Q(90, 100)) + 1,
                     components_95 |-> ArgMaxGe(n.cumulative_variance, Q(95, 100)) + 1,
                     components_99 |-> ArgMaxGe(n.cumulative_variance, Q(99, 100)) + 1]))

Thresholds ==
    /\ Finish("thresholds", ThresholdsCell(ns))
    /\ UNCHANGED <<printed, plotted>>

\* principal_coefficients = pca.transform(X_centered)
TransformCell(n) ==
    IF ~Bound(n, "pca") \/ ~Bound(n, "X_centered") THEN Raise(n, "NameError")
    ELSE IF PCATransformRaises(n.pca, n.X_centered) # ""
         THEN Raise(n, PCATransformRaises(n.pca, n.X_centered))
    ELSE Ok(Bind(n, [principal_coefficients |-> PCATransform(n.pca, n.X_centered)]))

Transform ==
    /\ Finish("transform", TransformCell(ns))
    /\ UNCHANGED <<printed, plotted>>

(***************************************************************************)
(* Statements.  Each takes the outcome so far and gives the outcome after  *)
(* it: nothing happens after a raise, and a statement that raises binds    *)
(* nothing.                                                                *)
(***************************************************************************)
\* name = value, for the bindings b
Assign(r, b) == IF r.exc # "" THEN r ELSE Ok(Bind(r.ns, b))

\* a + b and a - b for broadcastable a and b, one of them 1-d
BroadcastAdd(a, b) == Arr1(Seal([f \in 1..BroadcastLen(a, b) |-> Add(At(a, f), At(b, f))]))

BroadcastSub1(a, b) == Arr1(Seal([f \in 1..BroadcastLen(a, b) |-> Sub(At(a, f), At(b, f))]))

\* a slice that runs one element too far
PrefixOneMore(v, k) == SubSeq(v, 1, Min(k + 1, Len(v)))

\* v[:k] for k >= 0: the slice stops at the end of v
Prefix(v, k) == SubSeq(v, 1, Min(k, Len(v)))

\* the weighted components with the opposite sign
DotPrefixNegated(coefficients, i, k, components) ==
    LET c == SubSeq(coefficients.data[i + 1], 1, Min(k, Len(coefficients.data[i + 1])))
    IN  Arr1(Seal([f \in 1..components.shape[1] |->
            Neg(Dot(c, SubSeq(components.data[f], 1, Len(c))))]))

\* np.dot(coefficients[i, :k], components[:, :k].T) for coefficients
\* samples x components and components features x components
DotPrefix(coefficients, i, k, components) ==
    LET c == Prefix(coefficients.data[i + 1], k)
    IN  Arr1(Seal([f \in 1..components.shape[1] |-> Dot(c, Prefix(components.data[f], k))]))

\* what name = np.dot(principal_coefficients[i, :k], principal_components[:, :k].T) + X_mean
\* raises in the namespace n, "" when it returns
ReconstructRaises(n, i, k) ==
    IF ~Bound(n, "principal_coefficients") THEN "NameError"
    ELSE IF i >= n.principal_coefficients.shape[1] THEN "IndexError"
    ELSE IF ~Bound(n, "principal_components") THEN "NameError"
    ELSE IF Min(k, n.principal_coefficients.shape[2]) # Min(k, n.principal_components.shape[2])
         THEN "ValueError"
    ELSE IF ~Bound(n, "X_mean") THEN "NameError"
    ELSE IF ~Broadcastable(Arr1(Col(n.principal_components.data, 1)), n.X_mean) THEN "ValueError"
    ELSE ""

\* a reconstruction that leaves the mean out
ReconstructNoMean(coefficients, i, k, components, mean) ==
    Arr1(Seal([f \in 1..components.shape[1] |->
        Dot(SubSeq(coefficients.data[i + 1], 1, Min(k, Len(coefficients.data[i + 1]))),
            SubSeq(components.data[f], 1, Min(k, Len(components.data[f]))))]))

\* a reconstruction from the magnitudes of the coefficients
ReconstructAbs(coefficients, i, k, components, mean) ==
    LET c == SubSeq(coefficients.data[i + 1], 1, Min(k, Len(coefficients.data[i + 1])))
    IN  BroadcastAdd(
          Arr1(Seal([f \in 1..components.shape[1] |->
                 Dot(Seal([j \in 1..Len(c) |-> [n |-> Abs(c[j].n), d |-> c[j].d]]),
                     SubSeq(components.data[f], 1, Len(c)))])),
          mean)

\* the reconstruction itself: the mean plus the first k components weighted
\* by the first k coefficients of sample i
Reconstruct(coefficients, i, k, components, mean) ==
    BroadcastAdd(DotPrefix(coefficients, i, k, components), mean)

ReconstructStmt(r, i, k, name) ==
    IF r.exc # "" THEN r
    ELSE IF ReconstructRaises(r.ns, i, k) # "" THEN Raise(r.ns, ReconstructRaises(r.ns, i, k))
    ELSE Ok(Bind(r.ns, name :> Reconstruct(r.ns.principal_coefficients, i, k,
                                           r.ns.principal_components, r.ns.X_mean)))

\* np.mean((a - b) ** 2) for broadcastable 1-d arrays
MSE(a, b) ==
    LET d == BroadcastSub1(a, b).data
    IN  Div(Sum(Seal([f \in 1..Len(d) |-> Sq(d[f])])), F(Len(d)))

\* the difference taken in place (original -= reconstructed): original is a
\* view of a row of X, so the row is overwritten
MSEStmtInPlace(r, original, reconstructed) ==
    IF r.exc # "" THEN r
    ELSE IF ~Bound(r.ns, original) \/ ~Bound(r.ns, reconstructed) THEN Raise(r.ns, "NameError")
    ELSE IF ~Broadcastable(r.ns[original], r.ns[reconstructed]) THEN Raise(r.ns, "ValueError")
    ELSE LET d == BroadcastSub1(r.ns[original], r.ns[reconstructed])
             row == IF original = "first_shape" THEN 1 ELSE r.ns.which_shape + 1
             n1 == Bind(r.ns, [mse_error |-> MSE(r.ns[original], r.ns[reconstructed])])
         IN  IF Ndim(r.ns.X) = 2 /\ d.shape = <<r.ns.X.shape[2]>>
             THEN Ok(Bind(n1, [X |-> [shape |-> r.ns.X.shape,
                                      data |-> [r.ns.X.data EXCEPT ![row] = d.data]]]))
             ELSE Ok(n1)

\* mse_error = np.mean((original - reconstructed) ** 2), by their names
MSEStmt(r, original, reconstructed) ==
    IF r.exc # "" THEN r
    ELSE IF ~Bound(r.ns, original) \/ ~Bound(r.ns, reconstructed) THEN Raise(r.ns, "NameError")
    ELSE IF ~Broadcastable(r.ns[original], r.ns[reconstructed]) THEN Raise(r.ns, "ValueError")
    ELSE Ok(Bind(r.ns, [mse_error |-> MSE(r.ns[original], r.ns[reconstructed])]))

\* name = X[i]: row i of a 2-d array, element i of a 1-d array
RowStmt(r, i, name) ==
    IF r.exc # "" THEN r
    ELSE IF ~Bound(r.ns, "X") THEN Raise(r.ns, "NameError")
    ELSE IF i >= r.ns.X.shape[1] THEN Raise(r.ns, "IndexError")
    ELSE Ok(Bind(r.ns, name :> (IF Ndim(r.ns.X) = 2 THEN Arr1(r.ns.X.data[i + 1])
                                ELSE Arr0(r.ns.X.data[i + 1]))))

\* a reshape that fills the array column by column (order='F')
Reshape3ColumnMajor(v, rows) ==
    [shape |-> <<rows, 3>>,
     data |-> Seal([q \in 1..rows |-> <<v.data[q], v.data[q + rows], v.data[q + 2 * rows]>>])]

\* v.reshape(rows, 3) of a 1-d array: point q is (v[3q], v[3q+1], v[3q+2])
Reshape3(v, rows) ==
    [shape |-> <<rows, 3>>,
     data |-> Seal([q \in 1..rows |-> SubSeq(v.data, 3 * q - 2, 3 * q)])]

\* n_points = flat.shape[0] // 3; points = flat.reshape(n_points, 3), by names
ReshapeStmt(r, flat, points) ==
    IF r.exc # "" THEN r
    ELSE IF ~Bound(r.ns, flat) THEN Raise(r.ns, "NameError")
    ELSE IF Ndim(r.ns[flat]) = 0 THEN Raise(r.ns, "IndexError")
    ELSE LET rows == r.ns[flat].shape[1] \div 3
             n1 == Bind(r.ns, [n_points |-> rows])
         IN  IF r.ns[flat].shape[1] # 3 * rows THEN Raise(n1, "ValueError")
             ELSE Ok(Bind(n1, points :> Reshape3(r.ns[flat], rows)))

(***************************************************************************)
(* Reconstruction                                                          *)
(***************************************************************************)
\* a slice bound that keeps every component: [0,] and [:, :]
Whole(n) ==
    IF Bound(n, "principal_coefficients") /\ Bound(n, "principal_components")
    THEN Max(n.principal_coefficients.shape[2], n.principal_components.shape[2])
    ELSE 0

\* first_shape = X[0]; reconstructed_shape from every component; mse_error
ReconstructAllCell(n) ==
    MSEStmt(ReconstructStmt(RowStmt(Ok(n), 0, "first_shape"),
                            0, Whole(n), "reconstructed_shape"),
            "first_shape", "reconstructed_shape")

ReconstructAll ==
    /\ Finish("reconstruct_all", ReconstructAllCell(ns))
    /\ UNCHANGED <<printed, plotted>>

\* num_components_to_use = 10
NumComponentsToUse == 10

ReconstructSubsetCell(n) ==
    MSEStmt(ReconstructStmt(RowStmt(Assign(Ok(n), [num_components_to_use |-> NumComponentsToUse]),
                                    0, "first_shape"),
                            0, NumComponentsToUse, "reconstructed_shape"),
            "first_shape", "reconstructed_shape")

ReconstructSubset ==
    /\ Finish("reconstruct_subset", ReconstructSubsetCell(ns))
    /\ UNCHANGED <<printed, plotted>>

\* range(1, 99, 10)
SweepStart == 1

SweepStop == 99

SweepStep == 10

\* range(start, stop, step) for a positive step, as a sequence
Range(start, stop, step) ==
    Seal([i \in 1..((stop - start + step - 1) \div step) |-> start + (i - 1) * step])

\* mse_errors.append(mse_error)
AppendErrorStmt(r) ==
    IF r.exc # "" THEN r
    ELSE Ok(Bind(r.ns, [mse_errors |-> Append(r.ns.mse_errors, r.ns.mse_error)]))

\* the iterations idx .. of the loop over ks, from the outcome r so far
RECURSIVE SweepFrom(_, _, _)
SweepFrom(r, ks, idx) ==
    IF r.exc # "" \/ idx > Len(ks) THEN r
    ELSE SweepFrom(
            AppendErrorStmt(
              MSEStmt(ReconstructStmt(Assign(r, [n_components |-> ks[idx]]),
                                      0, ks[idx], "reconstructed_shape"),
                      "first_shape", "reconstructed_shape")),
            ks, idx + 1)

\* mse_errors = []; for n_components in range(1, 99, 10): ...
ErrorSweepCell(n) ==
    SweepFrom(Assign(Ok(n), [mse_errors |-> <<>>]), Range(SweepStart, SweepStop, SweepStep), 1)

\* plt.plot(range(1, 99, 10), mse_errors), reached when the loop raised nothing
SweepPlot(r) == [x |-> Range(SweepStart, SweepStop, SweepStep), y |-> r.ns.mse_errors]

ErrorSweep ==
    /\ Finish("error_sweep", ErrorSweepCell(ns))
    /\ plotted' = IF ErrorSweepCell(ns).exc = "" THEN SweepPlot(ErrorSweepCell(ns)) ELSE plotted
    /\ UNCHANGED printed

\* mesh_points_list = [the arrays of these names]
MeshListStmt(r, names) ==
    IF r.exc # "" THEN r
    ELSE IF \E a \in 1..Len(names) : ~Bound(r.ns, names[a]) THEN Raise(r.ns, "NameError")
    ELSE Ok(Bind(r.ns, [mesh_points_list |-> Seal([a \in 1..Len(names) |-> r.ns[names[a]]])]))

\* which_shape = 0 and n_components = 5 as written; the settings of the cell
\* are the shape index and the number of components, up to that
WhichShape == 0

NComponents == 5

\* the cell that rebuilds shape which_shape from n_components components and
\* shows it over the original
ReconstructShowCell(n, which_shape, n_components) ==
    MeshListStmt(
      MSEStmt(
        ReshapeStmt(
          ReconstructStmt(
            ReshapeStmt(
              RowStmt(Assign(Ok(n), [which_shape |-> which_shape, n_components |-> n_components]),
                      which_shape, "original_shape_flat"),
              "original_shape_flat", "original_shape"),
            which_shape, n_components, "reconstructed_shape_flat"),
          "reconstructed_shape_flat", "reconstructed_shape"),
        "original_shape_flat", "reconstructed_shape_flat"),
      <<"original_shape", "reconstructed_shape">>)

ReconstructShow ==
    /\ \E which_shape \in 0..(MaxSamples - 1), n_components \in 0..NComponents :
          Finish("reconstruct_show", ReconstructShowCell(ns, which_shape, n_components))
    /\ UNCHANGED <<printed, plotted>>

(***************************************************************************)
(* Modes                                                                   *)
(***************************************************************************)
\* np.std(v): the square root of the mean squared deviation from the mean
Std(v) ==
    LET mean == Div(Sum(v), F(Len(v)))
    IN  Sqrt(Div(Sum(Seal([i \in 1..Len(v) |-> Sq(Sub(v[i], mean))])), F(Len(v))))

\* mode_std = np.std(principal_coefficients[:, selected_mode])
ModeStdStmt(r) ==
    IF r.exc # "" THEN r
    ELSE IF ~Bound(r.ns, "principal_coefficients") THEN Raise(r.ns, "NameError")
    ELSE IF r.ns.selected_mode >= r.ns.principal_coefficients.shape[2]
         THEN Raise(r.ns, "IndexError")
    ELSE Ok(Bind(r.ns, [mode_std |->
                          Std(Col(r.ns.principal_coefficients.data, r.ns.selected_mode + 1))]))

\* an effect that ignores the sign
EffectOneSided(mean, sign, coeff, mode_std, components, mode) ==
    BroadcastAdd(mean, Arr1(VScale(Mul(coeff, mode_std), Col(components.data, mode + 1))))

\* mean + sign * coeff * mode_std * components[:, mode]
Effect(mean, sign, coeff, mode_std, components, mode) ==
    BroadcastAdd(mean, Arr1(VScale(Mul(F(sign), Mul(coeff, mode_std)),
                                   Col(components.data, mode + 1))))

\* name = X_mean +- coeff * mode_std * principal_components[:, selected_mode]
EffectStmt(r, sign, name) ==
    IF r.exc # "" THEN r
    ELSE IF ~Bound(r.ns, "X_mean") \/ ~Bound(r.ns, "principal_components")
         THEN Raise(r.ns, "NameError")
    ELSE IF r.ns.selected_mode >= r.ns.principal_components.shape[2]
         THEN Raise(r.ns, "IndexError")
    ELSE IF ~Broadcastable(r.ns.X_mean, Arr1(Col(r.ns.principal_components.data, 1)))
         THEN Raise(r.ns, "ValueError")
    ELSE Ok(Bind(r.ns, name :> Effect(r.ns.X_mean, sign, r.ns.coeff, r.ns.mode_std,
                                      r.ns.principal_components, r.ns.selected_mode)))

\* name = other, by names
CopyStmt(r, other, name) ==
    IF r.exc # "" THEN r
    ELSE IF ~Bound(r.ns, other) THEN Raise(r.ns, "NameError")
    ELSE Ok(Bind(r.ns, name :> r.ns[other]))

\* selected_mode = 0 and coeff = 3.0 as written; the settings of the cell are
\* the mode and the coefficient that scales its standard deviation
SelectedMode == 0

CoeffWritten == 3

Coeffs == {F(0), F(CoeffWritten)}

\* the largest mode index the settings take
MaxMode == 2

ModeEffectCell(n, selected_mode, coeff) ==
    MeshListStmt(
      ReshapeStmt(
        ReshapeStmt(
          EffectStmt(
            EffectStmt(
              Assign(
                ModeStdStmt(
                  ReshapeStmt(
                    CopyStmt(Assign(Ok(n), [selected_mode |-> selected_mode]),
                             "X_mean", "mean_shape_flat"),
                    "mean_shape_flat", "mean_shape")),
                [coeff |-> coeff]),
              1, "effect_selcted_mode_pos_flat"),
            -1, "effect_selcted_mode_neg_flat"),
          "effect_selcted_mode_pos_flat", "effect_selcted_mode_pos"),
        "effect_selcted_mode_neg_flat", "effect_selcted_mode_neg"),
      <<"original_shape", "effect_selcted_mode_pos", "effect_selcted_mode_neg">>)

ModeEffect ==
    /\ \E selected_mode \in 0..MaxMode, coeff \in Coeffs :
          Finish("mode_effect", ModeEffectCell(ns, selected_mode, coeff))
    /\ UNCHANGED <<printed, plotted>>

Init ==
    /\ ns = <<>>
    /\ pc = "demo_eigh"
    /\ log = <<>>
    /\ printed = <<>>
    /\ plotted = <<>>
    /\ flip \in {"u", "v"}

Next ==
    \/ DemoEigh
    \/ DemoPCA
    \/ DemoCompare
    \/ LoadShapes
    \/ PrintFeatures
    \/ MeanShape
    \/ Center
    \/ Fit
    \/ Components
    \/ ExplainedVariance
    \/ Thresholds
    \/ Transform
    \/ ReconstructAll
    \/ ReconstructSubset
    \/ ErrorSweep
    \/ ReconstructShow
    \/ ModeEffect

Spec == Init /\ [][Next]_vars

(***************************************************************************)
(* A second run.  The kernel keeps its namespace, so running the cells of  *)
(* the population again, after the files of Input/ changed, starts from    *)
(* what the first run left.                                                *)
(***************************************************************************)
\* the populations a run is repeated after: three shapes that vary along two axes
FirstRunShapes ==
    { Samples(3, MeanRow(3 * np), PopComps(3 * np, "axis", 2)) : np \in 1..MaxPoints }

\* after a whole run that raised nothing, with the settings as written, the
\* user goes back to the cell that loads the shapes
RunAgain ==
    /\ pc = "end"
    /\ log = <<>>
    /\ ns.shapes \in FirstRunShapes
    /\ ns.which_shape = WhichShape /\ ns.n_components = NComponents
    /\ ns.selected_mode = SelectedMode /\ ns.coeff = F(CoeffWritten)
    /\ pc' = "load_shapes"
    /\ UNCHANGED <<ns, log, printed, plotted, flip>>

NextRerun ==
    \/ Next
    \/ RunAgain

SpecRerun == Init /\ [][NextRerun]_vars

(***************************************************************************)
(* Properties                                                              *)
(***************************************************************************)
\* cell c has run and raised nothing
Succeeded(c) ==
    /\ pc = "end" \/ CellIndex(pc) > CellIndex(c)
    /\ \A e \in 1..Len(log) : log[e].cell # c

\* cell c has run and raised
Failed(c) == \E e \in 1..Len(log) : log[e].cell = c

\* arrays of the same shape holding the same values
ArrEq(a, b) == a.shape = b.shape /\ a.data = b.data

\* the samples of the matrix X, from 0
Samples0 == 0..(ns.X.shape[1] - 1)

\* the number of components of the basis in the namespace
K == ns.principal_components.shape[2]

\* decode as the reconstruction cells compute it, over the namespace
Decode(i, k) ==
    Reconstruct(ns.principal_coefficients, i, k, ns.principal_components, ns.X_mean)

\* C1: a reconstruction from the first 0 components is the mean shape, in
\* every feature: in the cell that shows a reconstruction when it is set to 0
\* components, and for the coefficient row of every sample of a fitted
\* population.
C1_DecodeZeroIsMean ==
    /\ (pc = "mode_effect" /\ Succeeded("reconstruct_show") /\ ns.n_components = 0)
          => ArrEq(ns.reconstructed_shape_flat, ns.X_mean)
    /\ (pc = "reconstruct_all" /\ Succeeded("transform"))
          => \A i \in Samples0 : ArrEq(Decode(i, 0), ns.X_mean)

\* the shown shape has a coefficient that is not 0, and 0 components gave the mean
C1_Witness ==
    /\ pc = "mode_effect" /\ Succeeded("reconstruct_show") /\ ns.n_components = 0
    /\ \E j \in 1..K : ns.principal_coefficients.data[ns.which_shape + 1][j] # Zero
    /\ ArrEq(ns.reconstructed_shape_flat, ns.X_mean)
    /\ ~ArrEq(ns.original_shape_flat, ns.X_mean)

\* C2: for every sample that was part of the fit, the reconstruction from
\* its coefficient row with all K components is the sample itself: the cell
\* that reconstructs the first shape gives it back with error 0, and so does
\* decode over the coefficients of every row.
C2_RoundTrip ==
    /\ (pc = "reconstruct_subset" /\ Succeeded("reconstruct_all"))
          => /\ ArrEq(ns.reconstructed_shape, ns.first_shape)
             /\ ns.mse_error = Zero
    /\ (pc = "reconstruct_all" /\ Succeeded("transform"))
          => \A i \in Samples0 : ArrEq(Decode(i, K), Arr1(ns.X.data[i + 1]))

\* the first shape is not the mean, and all the components gave it back
C2_Witness ==
    /\ pc = "reconstruct_subset" /\ Succeeded("reconstruct_all")
    /\ ~ArrEq(ns.first_shape, ns.X_mean)
    /\ ArrEq(ns.reconstructed_shape, ns.first_shape)

\* the sequence of errors never goes up
NonIncreasing(errors) ==
    \A a \in 1..(Len(errors) - 1) : Ge(errors[a], errors[a + 1])

\* C3: for a fixed sample of the fitted population the mean squared error of
\* the reconstruction from the first k components is at least the error from
\* the first k + 1, for every k in 0 .. K - 1; the errors the sweep records
\* for growing numbers of components never go up.
C3_ErrorNonIncreasing ==
    /\ (pc = "reconstruct_all" /\ Succeeded("transform"))
          => \A i \in Samples0 : \A k \in 0..(K - 1) :
                Ge(MSE(Arr1(ns.X.data[i + 1]), Decode(i, k)),
                   MSE(Arr1(ns.X.data[i + 1]), Decode(i, k + 1)))
    /\ (pc = "reconstruct_show" /\ Succeeded("error_sweep"))
          => NonIncreasing(ns.mse_errors)

\* a sample whose error strictly falls twice as components are added
C3_Witness ==
    /\ pc = "reconstruct_all" /\ Succeeded("transform")
    /\ \E i \in Samples0 :
          /\ Lt(MSE(Arr1(ns.X.data[i + 1]), Decode(i, 1)), MSE(Arr1(ns.X.data[i + 1]), Decode(i, 0)))
          /\ Lt(MSE(Arr1(ns.X.data[i + 1]), Decode(i, 2)), MSE(Arr1(ns.X.data[i + 1]), Decode(i, 1)))

\* the mean of the squared deviations of v from its mean
Variance(v) ==
    Div(Sum(Seal([i \in 1..Len(v) |-> Sq(Sub(v[i], Div(Sum(v), F(Len(v)))))])), F(Len(v)))

\* s is the square root of a, to the precision the square root carries
IsSqrtOf(s, a) ==
    /\ Ge(s, Zero)
    /\ Le(Sq(s), a)
    /\ Lt(a, Sq(Add(s, Q(1, SqrtDigits))))

\* C4: the mode cell gives the mean plus and minus coeff times the spread
\* times the basis vector of the selected mode, feature by feature, where the
\* spread is the standard deviation of that mode's column of coefficients;
\* with coeff 0 both shapes are the mean, whatever the mode.
C4_ModeEffect ==
    (pc = "end" /\ Bound(ns, "effect_selcted_mode_neg_flat"))
       => LET m == ns.selected_mode
              step(f) == Mul(ns.coeff, Mul(ns.mode_std, ns.principal_components.data[f][m + 1]))
          IN  /\ IsSqrtOf(ns.mode_std, Variance(Col(ns.principal_coefficients.data, m + 1)))
              /\ ns.effect_selcted_mode_pos_flat.shape = ns.X_mean.shape
              /\ ns.effect_selcted_mode_neg_flat.shape = ns.X_mean.shape
              /\ \A f \in 1..ns.X_mean.shape[1] :
                    /\ ns.effect_selcted_mode_pos_flat.data[f] = Add(ns.X_mean.data[f], step(f))
                    /\ ns.effect_selcted_mode_neg_flat.data[f] = Sub(ns.X_mean.data[f], step(f))
              /\ ns.coeff = Zero
                    => /\ ArrEq(ns.effect_selcted_mode_pos_flat, ns.X_mean)
                       /\ ArrEq(ns.effect_selcted_mode_neg_flat, ns.X_mean)

\* a mode with spread above 0, scaled by 3, moved the two shapes off the mean
C4_Witness ==
    /\ pc = "end" /\ Succeeded("mode_effect")
    /\ ns.coeff = F(CoeffWritten)
    /\ Lt(Zero, ns.mode_std)
    /\ ~ArrEq(ns.effect_selcted_mode_pos_flat, ns.X_mean)
    /\ ~ArrEq(ns.effect_selcted_mode_pos_flat, ns.effect_selcted_mode_neg_flat)

NonNegative(v) == \A a \in 1..Len(v) : Ge(v[a], Zero)

\* v is an eigenvector of the matrix c with eigenvalue val
PairedWith(c, v, val) == MatVec(c, v) = VScale(val, v)

\* C5: after a fit the explained-variance sequence is non-negative and
\* non-increasing, and each basis vector stays with its own variance: in the
\* demo after the eigenvalues are sorted, and for the explained variance the
\* notebook takes from a fit over two or more shapes.
C5_VarianceSortedAndPaired ==
    /\ pc = "demo_pca"
          => /\ NonNegative(ns.eigenvalues.data)
             /\ NonIncreasing(ns.eigenvalues.data)
             /\ \A j \in 1..Len(ns.eigenvalues.data) :
                   PairedWith(ns.cov_matrix.data, Col(ns.eigenvectors.data, j),
                              ns.eigenvalues.data[j])
    /\ (pc = "thresholds" /\ Succeeded("explained_variance") /\ ns.X.shape[1] >= 2)
          => /\ NonNegative(ns.explained_variance.data)
             /\ NonIncreasing(ns.explained_variance.data)
             /\ \A j \in 1..K :
                   PairedWith(Cov(ns.X).data, Col(ns.principal_components.data, j),
                              ns.pca.explained_variance_.data[j])

\* a fit over identical shapes succeeded and the explained variance is nan
C5_Witness ==
    /\ pc = "thresholds" /\ Succeeded("explained_variance") /\ Succeeded("load_shapes")
    /\ ns.X.shape[1] >= 2
    /\ \A i \in Samples0 : ns.X.data[i + 1] = ns.X.data[1]
    /\ \A j \in 1..Len(ns.explained_variance.data) : IsNaN(ns.explained_variance.data[j])

\* the vectors vs are pairwise orthogonal and of unit norm
Orthonormal(vs) ==
    \A a, b \in 1..Len(vs) : Dot(vs[a], vs[b]) = (IF a = b THEN F(1) ELSE Zero)

\* C6: a fit over M samples of N features gives K <= min(M, N) basis vectors,
\* pairwise orthogonal and of unit norm; over the 5 x 30 matrix of the demo it
\* gives exactly 5.
C6_BasisOrthonormal ==
    /\ pc = "demo_compare"
          => /\ ns.X.shape = <<DemoSamples, DemoFeatures>>
             /\ ns.principal_components.shape = <<5, DemoFeatures>>
             /\ Orthonormal(ns.principal_components.data)
    /\ (pc = "explained_variance" /\ Succeeded("components"))
          => /\ K <= Min(ns.X.shape[1], ns.X.shape[2])
             /\ ns.principal_components.shape[1] = ns.X.shape[2]
             /\ Orthonormal(Transpose(ns.principal_components.data))

\* a population of three or more shapes gave three or more basis vectors
C6_Witness ==
    /\ pc = "explained_variance" /\ Succeeded("components") /\ Succeeded("load_shapes")
    /\ K >= 3
    /\ Orthonormal(Transpose(ns.principal_components.data))

\* C7: building the sample matrix raises when two shapes differ in their
\* number of points and when there is no shape at all, and in neither case
\* binds a sample matrix: X is what it was before the cell.
C7_BuildSignalsBadInput ==
    [][(pc = "load_shapes" /\ (ns'.shapes = <<>> \/ RaggedShapes(ns'.shapes)))
          => /\ log' # log
             /\ ns'.X = ns.X]_vars

\* no shape was read, nothing was raised and X is an empty array
C7_Witness ==
    /\ pc = "print_features"
    /\ ns.shapes = <<>>
    /\ ~Failed("load_shapes")
    /\ ns.X.shape = <<0>>

\* fewer than two rows (an empty array has none), or a value that is not finite
Degenerate(x) == x.shape[1] < 2 \/ ~AllFinite(x)

\* C8: the fit raises whenever the sample matrix has fewer than two rows or
\* holds a value that is not finite, and raises before a mean, a basis or
\* coefficients are produced from that matrix.
C8_FitRejectsDegenerate ==
    (pc = "components" /\ Degenerate(ns.X))
       => /\ Failed("fit")
          /\ ~Bound(ns, "X_mean")
          /\ ~ns.pca.fitted
          /\ ~Bound(ns, "principal_coefficients")

\* a single shape was fitted and nothing was raised
C8_Witness ==
    /\ pc = "components"
    /\ ns.X.shape[1] = 1
    /\ log = <<>>
    /\ ns.pca.fitted
    /\ IsNaN(ns.pca.explained_variance_.data[1])

ModelNames == {"pca", "principal_components", "principal_coefficients", "X_mean"}

\* the four names hold the parts of one fitted model
OneModel ==
    /\ \A name \in ModelNames : Bound(ns, name)
    /\ ns.pca.fitted
    /\ ArrEq(ns.principal_components, Arr2(Transpose(ns.pca.components_.data)))
    /\ ArrEq(ns.principal_coefficients, PCATransform(ns.pca, ns.X_centered))
    /\ ArrEq(ns.X_mean, MeanAxis0(ns.X))

\* C10: after a fit that failed, the names later cells read (pca,
\* principal_components, principal_coefficients, X_mean) are either all
\* unbound or all parts of one fit that succeeded.
C10_NoStaleModel ==
    Failed("fit") => ((\A name \in ModelNames : ~Bound(ns, name)) \/ OneModel)

\* the fit over the population failed: pca is unfitted, the basis is the one
\* of the demo, the mean is that of the population, there are no coefficients
C10_Witness ==
    /\ pc = "explained_variance" /\ Failed("fit") /\ Succeeded("load_shapes")
    /\ ~ns.pca.fitted
    /\ ns.principal_components.shape = <<5, DemoFeatures>>
    /\ Ndim(ns.X) = 2
    /\ ns.X_mean.shape = <<ns.X.shape[2]>>
    /\ ns.X.shape[2] # DemoFeatures
    /\ ~Bound(ns, "principal_coefficients")

\* the cells that reconstruct a shape, and the names they bind it to
DecodeCells == {"reconstruct_all", "reconstruct_subset", "error_sweep", "reconstruct_show"}

DecodeNames == {"reconstructed_shape", "reconstructed_shape_flat"}

\* the mean the reconstructions add has not the feature length of the basis
MeanMismatch(n) ==
    /\ Bound(n, "principal_coefficients") /\ Bound(n, "principal_components") /\ Bound(n, "X_mean")
    /\ n.X_mean.shape # <<n.principal_components.shape[1]>>

\* the matrix to encode has not the feature length the estimator was fitted on
EncodeMismatch(n) ==
    /\ Bound(n, "pca") /\ Bound(n, "X_centered")
    /\ n.pca.fitted
    /\ Ndim(n.X_centered) = 2
    /\ n.X_centered.shape[2] # n.pca.n_features_in_

\* name is bound after the step as it was before it
Kept(name) ==
    IF Bound(ns, name) THEN Bound(ns', name) /\ ArrEq(ns'[name], ns[name])
    ELSE ~Bound(ns', name)

\* C9: encoding and decoding raise whenever the shape, or the mean or basis
\* combined with it, has not the feature length of the fitted model, and then
\* bind no coefficients and no reconstruction.
C9_MismatchSignalled ==
    [][/\ (pc \in DecodeCells /\ MeanMismatch(ns))
             => (log' # log /\ \A name \in DecodeNames : Kept(name))
       /\ (pc = "transform" /\ EncodeMismatch(ns))
             => (log' # log /\ Kept("principal_coefficients"))]_vars

\* in the second run no shape was read: the mean is a 0-d nan, the sweep added
\* it to the reconstruction from the first run's model and raised nothing
C9_Witness ==
    /\ pc = "reconstruct_show"
    /\ Failed("fit") /\ ~Failed("error_sweep")
    /\ Ndim(ns.X_mean) = 0
    /\ ns.reconstructed_shape.shape = <<ns.principal_components.shape[1]>>
    /\ \A f \in 1..Len(ns.reconstructed_shape.data) : IsNaN(ns.reconstructed_shape.data[f])

\* the cells that reconstruct a shape, record its error or perturb a mode
ReadCells ==
    {"reconstruct_all", "reconstruct_subset", "error_sweep", "reconstruct_show", "mode_effect"}

\* the names of the fitted model and of the sample matrix
FrameNames ==
    {"X", "X_centered", "X_mean", "pca", "principal_components", "explained_variance",
     "cumulative_variance", "principal_coefficients"}

\* name holds after the step the value it held before it
SameValue(name) ==
    IF Bound(ns, name) THEN Bound(ns', name) /\ ns'[name] = ns[name]
    ELSE ~Bound(ns', name)

\* C11: every step of a cell that reconstructs a shape, records the error of a
\* reconstruction or perturbs a mode leaves the mean shape, the basis, the
\* explained variance, the coefficients, the estimator and the sample matrix
\* as they were, whether the cell returns or raises.
C11_ModelFrame ==
    [][(pc \in ReadCells) => (\A name \in FrameNames : SameValue(name))]_vars

\* every cell ran after the fit and raised nothing; the names still hold the
\* parts of the one fit over the shapes that were read, and the last cell
\* moved the mean
C11_Witness ==
    /\ pc = "end" /\ log = <<>>
    /\ OneModel
    /\ ArrEq(ns.X, Arr2(ns.shapes))
    /\ ArrEq(ns.explained_variance, ns.pca.explained_variance_ratio_)
    /\ ~ArrEq(ns.effect_selcted_mode_pos_flat, ns.X_mean)
    /\ ~ArrEq(ns.reconstructed_shape_flat, ns.X_mean)

\* C12: the model of the first fit (the demo) outlives the second fit (the
\* population): once the second fit and its basis are there, the comparison
\* the demo made over the first model still runs and gives what it gave.
C12_FirstModelKept ==
    (Succeeded("components") /\ Succeeded("fit"))
       => /\ DemoCompareRaises(ns) = ""
          /\ DemoCompareOutput(ns) = printed

\* the comparison over the demo's model printed True; after the fit over the
\* population pca and principal_components hold the population's model, of
\* another number of features, and the comparison cannot be made any more
C12_Witness ==
    /\ pc = "explained_variance" /\ Succeeded("components") /\ Succeeded("fit")
    /\ printed.same_up_to_sign
    /\ Len(printed.principal_component_1st.data) = DemoFeatures
    /\ ns.pca.n_features_in_ # DemoFeatures
    /\ ArrEq(ns.principal_components, Arr2(Transpose(ns.pca.components_.data)))
    /\ DemoCompareRaises(ns) = "ValueError"

\* v is w or -w
UpToSign(v, w) == v = w \/ v = VScale(F(-1), w)

\* eigenvalue j of the demo's covariance matrix differs from every other one
Simple(j) ==
    \A i \in 1..Len(ns.eigenvalues.data) : i # j => ns.eigenvalues.data[i] # ns.eigenvalues.data[j]

FlipColumn(a, j) ==
    [shape |-> a.shape,
     data |-> Seal([i \in 1..a.shape[1] |->
                 Seal([c \in 1..a.shape[2] |-> IF c = j THEN Neg(a.data[i][c]) ELSE a.data[i][c]])])]

\* decode over the model with the sign of basis vector j and of coefficient
\* column j flipped
DecodeFlipped(j, i, k) ==
    Reconstruct(FlipColumn(ns.principal_coefficients, j), i, k,
                FlipColumn(ns.principal_components, j), ns.X_mean)

\* the mode cell's shape for sign, over the model flipped in j
EffectFlipped(j, sign) ==
    Effect(ns.X_mean, sign, ns.coeff,
           Std(Col(FlipColumn(ns.principal_coefficients, j).data, ns.selected_mode + 1)),
           FlipColumn(ns.principal_components, j), ns.selected_mode)

\* C14: flipping the sign of basis vector j together with the sign of
\* coefficient column j changes no reconstruction, for every j, every sample
\* and every number of components; it swaps the positive and the negative
\* shape of mode j and leaves the two shapes of every other mode as they are.
C14_SignInvariant ==
    /\ (pc = "reconstruct_all" /\ Succeeded("transform"))
          => \A j \in 1..K : \A i \in Samples0 : \A k \in 0..K :
                ArrEq(DecodeFlipped(j, i, k), Decode(i, k))
    /\ (pc = "end" /\ Succeeded("mode_effect"))
          => \A j \in 1..K :
                IF j = ns.selected_mode + 1
                THEN /\ ArrEq(EffectFlipped(j, 1), ns.effect_selcted_mode_neg_flat)
                     /\ ArrEq(EffectFlipped(j, -1), ns.effect_selcted_mode_pos_flat)
                ELSE /\ ArrEq(EffectFlipped(j, 1), ns.effect_selcted_mode_pos_flat)
                     /\ ArrEq(EffectFlipped(j, -1), ns.effect_selcted_mode_neg_flat)

\* the selected mode has spread and moved the two shapes apart, the flipped
\* model gives them swapped; a sample off the mean is decoded alike by both
C14_Witness ==
    /\ pc = "end" /\ log = <<>>
    /\ Lt(Zero, ns.mode_std) /\ ns.coeff = F(CoeffWritten)
    /\ ~ArrEq(ns.effect_selcted_mode_pos_flat, ns.effect_selcted_mode_neg_flat)
    /\ ArrEq(EffectFlipped(ns.selected_mode + 1, 1), ns.effect_selcted_mode_neg_flat)
    /\ \E i \in Samples0 :
          /\ ns.principal_coefficients.data[i + 1][1] # Zero
          /\ ~ArrEq(Decode(i, 1), ns.X_mean)
          /\ ~ArrEq(FlipColumn(ns.principal_components, 1), ns.principal_components)
          /\ ArrEq(DecodeFlipped(1, i, 1), Decode(i, 1))

\* C15: the comparison cell answers True whenever the first eigenvector of
\* the covariance matrix is the first principal component or its negative,
\* and the two vectors it prints as "(1st)" are the two it compares.
C15_CompareFirstUpToSign ==
    pc = "load_shapes"
       => /\ UpToSign(Col(ns.eigenvectors.data, 1), ns.principal_components.data[1])
                => printed.same_up_to_sign
          /\ ArrEq(printed.eigenvector_1st, Column(ns.eigenvectors, 0))
          /\ ArrEq(printed.principal_component_1st, Row(ns.principal_components, 0))

\* the first eigenvector is the negative of the first principal component and
\* the cell answered False; the vectors it printed are the second ones
C15_Witness ==
    /\ pc = "load_shapes"
    /\ Col(ns.eigenvectors.data, 1) = VScale(F(-1), ns.principal_components.data[1])
    /\ ~printed.same_up_to_sign
    /\ ArrEq(printed.eigenvector_1st, Column(ns.eigenvectors, 1))
    /\ ArrEq(printed.principal_component_1st, Row(ns.principal_components, 1))
    /\ ~ArrEq(printed.eigenvector_1st, Column(ns.eigenvectors, 0))

\* C16: the sweep takes the numbers of components 0, 10, 20, ... up to the
\* number K of components of the model, and the curve it plots pairs every
\* recorded error with the number of components it was computed with.
C16_SweepFromZeroToK ==
    (pc = "reconstruct_show" /\ Succeeded("error_sweep"))
       => /\ plotted.x = Range(0, K + 1, SweepStep)
          /\ Len(plotted.y) = Len(plotted.x)
          /\ \A a \in 1..Len(plotted.x) :
                plotted.y[a] = MSE(ns.first_shape, Decode(0, plotted.x[a]))

\* the sweep ran over 1, 11, ..., 91 whatever K: the error of the mean alone
\* (0 components), which differs from the first one recorded, is not there,
\* and all counts but the first are beyond K; each error is plotted at the
\* count it was computed with
C16_Witness ==
    /\ pc = "reconstruct_show" /\ Succeeded("error_sweep")
    /\ plotted.x[1] = 1 /\ plotted.x[2] > K
    /\ plotted.x[Len(plotted.x)] = 91
    /\ MSE(ns.first_shape, Decode(0, 0)) # plotted.y[1]
    /\ plotted.y = ns.mse_errors
    /\ \A a \in 1..Len(plotted.x) :
          plotted.y[a] = MSE(ns.first_shape, Decode(0, plotted.x[a]))

\* the thresholds of the cell and the names of their component counts
ThresholdNames ==
    { <<Q(90, 100), "components_90">>, <<Q(95, 100), "components_95">>,
      <<Q(99, 100), "components_99">> }

\* c is the smallest k in 1..Len(cum) whose cumulative ratio cum[k] is at least t
SmallestReaching(cum, t, c) ==
    /\ c \in 1..Len(cum)
    /\ Ge(cum[c], t)
    /\ \A k \in 1..(c - 1) : ~Ge(cum[k], t)

\* C17: for each threshold of 90%, 95% and 99% the count the cell reports is
\* the smallest k in 1..K whose cumulative explained-variance ratio is at
\* least the threshold, and so the three counts are ordered and at most K.
C17_SmallestCount ==
    (pc = "transform" /\ Succeeded("thresholds"))
       => /\ \A tn \in ThresholdNames :
                SmallestReaching(ns.cumulative_variance.data, tn[1], ns[tn[2]])
          /\ ns.components_90 <= ns.components_95
          /\ ns.components_95 <= ns.components_99
          /\ ns.components_99 <= Len(ns.cumulative_variance.data)

\* the shapes are all the same: every cumulative ratio is nan, no k reaches
\* a threshold, and the cell reports 1 component for each
C17_Witness ==
    /\ pc = "transform" /\ Succeeded("thresholds") /\ Succeeded("load_shapes")
    /\ ns.X.shape[1] >= 2
    /\ \A k \in 1..Len(ns.cumulative_variance.data) : IsNaN(ns.cumulative_variance.data[k])
    /\ ~Ge(ns.cumulative_variance.data[1], Q(90, 100))
    /\ ns.components_90 = 1 /\ ns.components_95 = 1 /\ ns.components_99 = 1

\* row is the points of file in their order, each as x, y, z
FlatOf(row, file) ==
    /\ Len(row) = 3 * Len(file)
    /\ \A q \in 1..Len(file) : \A c \in 1..3 : row[3 * (q - 1) + c] = file[q][c]

\* the 2-d array points holds the consecutive triples of the 1-d array flat
PointsOf(points, flat) ==
    /\ 3 * points.shape[1] = flat.shape[1]
    /\ points.shape = <<flat.shape[1] \div 3, 3>>
    /\ \A q \in 1..points.shape[1] :
          points.data[q] = <<flat.data[3 * q - 2], flat.data[3 * q - 1], flat.data[3 * q]>>

\* C18: for every folder of files that the loading cell turns into a sample
\* matrix, row i of the matrix is file i flattened: 3P coordinates in the
\* order x0, y0, z0, x1, y1, z1, ...; and the cell that shows a shape
\* reshapes a flat vector into P points of which point p is (flat[3p],
\* flat[3p+1], flat[3p+2]), so that flattening the points gives the vector back.
C18_FlattenReshape ==
    /\ pc = "load_shapes"
          => \A files \in Inputs :
                (files # <<>> /\ LoadShapesCell(ns, files).exc = "")
                   => /\ LoadShapesCell(ns, files).ns.X.shape
                            = <<Len(files), 3 * Len(files[1])>>
                      /\ \A i \in 1..Len(files) :
                            FlatOf(LoadShapesCell(ns, files).ns.X.data[i], files[i])
    /\ (pc = "mode_effect" /\ Succeeded("reconstruct_show"))
          => /\ PointsOf(ns.original_shape, ns.original_shape_flat)
             /\ PointsOf(ns.reconstructed_shape, ns.reconstructed_shape_flat)
             /\ Flatten(ns.original_shape.data) = ns.original_shape_flat.data
             /\ ArrEq(ns.original_shape_flat, Arr1(ns.X.data[ns.which_shape + 1]))

\* a shape of two points, not the first of its folder, was read, flattened
\* into its row of the matrix, and reshaped into the points of its file
C18_Witness ==
    /\ pc = "mode_effect" /\ Succeeded("reconstruct_show") /\ Succeeded("load_shapes")
    /\ ns.which_shape >= 1
    /\ ns.original_shape.shape = <<2, 3>>
    /\ ns.original_shape.data[2] = SubSeq(ns.X.data[ns.which_shape + 1], 4, 6)
    /\ ns.original_shape.data[1] # ns.original_shape.data[2]
    /\ \E files \in Inputs :
          /\ Len(files) = ns.X.shape[1]
          /\ \A i \in 1..Len(files) : FlatOf(ns.X.data[i], files[i])
          /\ files[ns.which_shape + 1] = ns.original_shape.data

\* the estimator was fitted on the centered matrix of the namespace, and the
\* basis is laid out features x components
FitOfCentered ==
    /\ Bound(ns, "X") /\ Bound(ns, "X_centered")
    /\ ArrEq(ns.X_centered, BroadcastSub(ns.X, ns.X_mean))
    /\ ns.pca.n_samples_ = ns.X.shape[1]
    /\ ns.pca.n_features_in_ = ns.X.shape[2]
    /\ ns.principal_components.shape = <<ns.X.shape[2], ns.pca.n_components_>>

====
